---- MODULE Spec2Model ----
(***************************************************************************)
(* The British Citizenship Test application.  Its components are modelled  *)
(* each under its own specification since App mounts one of them at a      *)
(* time:                                                                   *)
(*   Spec      the flash-card manager: the deck kept in component state    *)
(*             and in localStorage, the spaced-repetition scheduler inside *)
(*             handleReviewResult and the review session (start, flip,     *)
(*             outcome, quit), together with card generation;              *)
(*   QuizSpec  the quiz: App's quiz state and the QuizRunner with its      *)
(*             four modes, its countdown and its delayed completions.      *)
(*   ResultsSpec  the results view: the stats ResultsView computes from a  *)
(*             completed quiz of the size startQuiz asks for.              *)
(***************************************************************************)
EXTENDS Integers, Sequences, FiniteSets, TLC

VARIABLES
    cards,              \* useState<FlashCard[]>: the in-memory deck
    stored,             \* localStorage['uk_life_flashcards'], parsed
    isReviewing,        \* useState(false)
    isGenerating,       \* useState(false)
    reviewQueue,        \* useState<FlashCard[]>([])
    currentCardIndex,   \* useState(0), 0-based as in the source
    isFlipped,          \* useState(false)
    now,                \* the value Date.now() returns
    ticks,              \* number of clock steps taken
    failures,           \* number of localStorage.setItem calls that threw
    last,               \* the handler that ran last, with its inputs
    upserts,            \* outcomes handled since the session started
    writes,             \* localStorage.setItem calls since the session started
    before              \* the decks and the session before the last step

VARIABLES
    currentView,            \* App: 'HOME' | 'QUIZ' | 'FLASHCARDS'
    quizState,              \* App: QuizState
    selectedMode,           \* App: QuizMode, the mode prop of QuizRunner
    questions,              \* App: Question[], the questions prop
    userAnswers,            \* App: UserAnswers
    appBookmarks,           \* App: bookmarks, number[]
    timeTaken,              \* App: seconds
    loading,                \* a generateQuizQuestions call is in flight
    currentQuestionIndex,   \* QuizRunner: useState(0)
    answers,                \* QuizRunner: useState<UserAnswers>({})
    bookmarks,              \* QuizRunner: Set<number>, in insertion order
    secondsLeft,            \* QuizRunner: useState(MAX_TIME_SECONDS)
    isSubmitting,           \* QuizRunner: useState(false)
    showQuitConfirm,        \* QuizRunner: useState(false)
    showUnansweredConfirm,  \* QuizRunner: useState(false)
    pending,                \* setTimeout callbacks not yet run
    runs,                   \* number of startQuiz calls made
    completed,              \* the onComplete calls made, in order
    quitRuns,               \* the runs in which Quit was confirmed
    timerSteps              \* countdown steps taken since the last startQuiz

\* the state of the flash-card manager
flashVars == <<cards, stored, isReviewing, isGenerating, reviewQueue, currentCardIndex, isFlipped, now, ticks,
               failures, last, upserts, writes, before>>

\* the state of the QuizRunner component
runnerVars == <<currentQuestionIndex, answers, bookmarks, secondsLeft, isSubmitting,
                showQuitConfirm, showUnansweredConfirm>>

\* the quiz state of App, the QuizRunner and the timers it started
quizVars == <<currentView, quizState, selectedMode, questions, userAnswers, appBookmarks,
              timeTaken, loading, runnerVars, pending, runs, completed, quitRuns,
              timerSteps>>

vars == <<flashVars, quizVars>>

-----------------------------------------------------------------------------
(* Bounds of the model *)

\* the deck holds at most this many cards
MaxCards == 3
\* the clock advances at most this many times
MaxTicks == 1
\* localStorage.setItem throws at most this many times
MaxFailures == 1
\* a quiz has at most this many questions
MaxQuestions == 2
\* startQuiz is called at most this many times
MaxRuns == 2
\* the countdown of a quiz takes at most this many steps
MaxTimerSteps == 2

-----------------------------------------------------------------------------
(* Constants of the program *)

\* One day, 24 * 60 * 60 * 1000 ms.  The clock of the model counts whole
\* seconds (TLC's integers are 32-bit and ninety days of milliseconds do not
\* fit), so every timestamp t stands for t * 1000 ms and a day is 24*60*60.
Day == 24 * 60 * 60

\* const intervals = [1, 3, 7, 14, 30, 90]
intervals == <<1, 3, 7, 14, 30, 90>>

\* Date.now() when the component mounts
T0 == 200 * Day

\* steps by which the clock advances: a day, ninety days
TickSteps == {Day, 90 * Day}

\* ids Math.random().toString(36).substr(2, 9) may return
GenIds == {"k3x9", "q7w2"}

\* records the content provider may return
ProviderRecords ==
    { [front |-> "Who was Henry VIII?", back |-> "A Tudor king", topic |-> "The Tudors"] }

\* values typed into the topic field
TopicInputs == {"", " ", "The Tudors"}

-----------------------------------------------------------------------------
(* Cards *)

Card(id, front, back, topic, box, nextReview, createdAt) ==
    [id |-> id, front |-> front, back |-> back, topic |-> topic,
     box |-> box, nextReview |-> nextReview, createdAt |-> createdAt]

\* the seed deck written when localStorage holds no deck
seed(t) ==
    << Card("1", "What constitutes the UK?",
            "England, Scotland, Wales, and Northern Ireland.", "Geography", 0, t, t),
       Card("2", "Who built the Tower of London?",
            "William the Conqueror", "History", 0, t, t) >>

\* a seed deck whose cards were reviewed in earlier runs
ReviewedSeed(b1, r1, b2, r2) ==
    LET s == seed(Day)
    IN  << [s[1] EXCEPT !.box = b1, !.nextReview = r1],
           [s[2] EXCEPT !.box = b2, !.nextReview = r2] >>

\* decks earlier runs of the program left in localStorage: the seed cards in
\* boxes 2 and 4 and a generated card in box 5, due one and five seconds ago
\* and in one second
SavedDecks ==
    { ReviewedSeed(2, T0 - 1, 4, T0 + 1)
        \o << Card("k3x9", "Who was Henry VIII?", "A Tudor king", "The Tudors",
                   5, T0 - 5, 2 * Day) >> }

NoCard == Card("", "", "", "", 0, 0, 0)

-----------------------------------------------------------------------------
(* The scheduler: handleReviewResult, lines 86-118 *)

Min(a, b) == IF a < b THEN a ELSE b

\* a scheduler that demotes a failed card by one box
NewBoxDemoteOne(box, success) ==
    IF success THEN Min(box + 1, Len(intervals))
    ELSE IF box > 0 THEN box - 1 ELSE 0

\* a scheduler whose promotion stops one box early
NewBoxCapFive(box, success) ==
    IF success THEN Min(box + 1, Len(intervals) - 1) ELSE 0

\* a scheduler that subtracts a box on failure, whatever the box
NewBoxDecrement(box, success) ==
    IF success THEN Min(box + 1, Len(intervals)) ELSE box - 1

\* a scheduler whose promotion has no cap
NewBoxNoCap(box, success) ==
    IF success THEN box + 1 ELSE 0

\* newBox: Math.min(currentCard.box + 1, intervals.length) or 0
NewBox(box, success) ==
    IF success THEN Min(box + 1, Len(intervals)) ELSE 0

\* the interval looked up by the box the card leaves: intervals[newBox - 2] || 1
DaysToAddOldBox(newBox) ==
    IF newBox - 1 \in 1..Len(intervals) THEN intervals[newBox - 1] ELSE 1

\* intervals[newBox - 1] || 1
DaysToAdd(newBox) ==
    IF newBox \in 1..Len(intervals) THEN intervals[newBox] ELSE 1

\* nextReview: Date.now() + daysToAdd * 24*60*60*1000, or Date.now() + one day
NextReview(newBox, success, t) ==
    IF success THEN t + DaysToAdd(newBox) * Day ELSE t + Day

\* an update that drops the reviewed card and keeps the others
UpdatedCardsDroppingReviewed(cs, id, newBox, nextReview) ==
    SelectSeq(cs, LAMBDA c : c.id # id)

\* cards.map(c => c.id === currentCard.id ? {...c, box, nextReview} : c)
UpdatedCards(cs, id, newBox, nextReview) ==
    [i \in 1..Len(cs) |->
        IF cs[i].id = id
        THEN [cs[i] EXCEPT !.box = newBox, !.nextReview = nextReview]
        ELSE cs[i]]

-----------------------------------------------------------------------------
(* Due cards: startReview line 77 and stats line 48 *)

\* c.nextReview <= Date.now()
IsDue(c, t) == c.nextReview <= t

\* cards.filter(c => c.nextReview <= Date.now())
DueCards(cs, t) == SelectSeq(cs, LAMBDA c : IsDue(c, t))

\* stats with mastery counted from box 5
statsMasteredFromFive(cs, t) ==
    [totalCards    |-> Len(cs),
     dueCards      |-> Len(SelectSeq(cs, LAMBDA c : c.nextReview <= t)),
     masteredCards |-> Len(SelectSeq(cs, LAMBDA c : c.box >= 5))]

\* const stats: FlashCardDeckStats, computed at every render from the deck
\* and Date.now()
stats(cs, t) ==
    [totalCards    |-> Len(cs),
     dueCards      |-> Len(SelectSeq(cs, LAMBDA c : c.nextReview <= t)),
     masteredCards |-> Len(SelectSeq(cs, LAMBDA c : c.box >= 4))]

\* insertion of c into a sequence sorted by nextReview, after its equals
RECURSIVE InsertByNextReview(_, _)
InsertByNextReview(s, c) ==
    IF s = <<>> THEN <<c>>
    ELSE IF c.nextReview - Head(s).nextReview < 0
         THEN <<c>> \o s
         ELSE <<Head(s)>> \o InsertByNextReview(Tail(s), c)

\* .sort((a, b) => a.nextReview - b.nextReview), a stable sort
RECURSIVE SortByNextReview(_)
SortByNextReview(s) ==
    IF s = <<>> THEN <<>>
    ELSE InsertByNextReview(SortByNextReview(SubSeq(s, 1, Len(s) - 1)), s[Len(s)])

\* the due cards in deck order, without the sort
DueQueueUnsorted(cs, t) == DueCards(cs, t)

\* const due = cards.filter(...).sort(...)
DueQueue(cs, t) == SortByNextReview(DueCards(cs, t))

\* the review view is rendered: isReviewing && reviewQueue.length > 0
ReviewView == ~isGenerating /\ isReviewing /\ Len(reviewQueue) > 0

\* the dashboard is rendered
DashboardView == ~isGenerating /\ ~(isReviewing /\ Len(reviewQueue) > 0)

-----------------------------------------------------------------------------
(* History kept for the properties *)

\* last: the handler that ran last; for handleReviewResult also its argument,
\* whether setItem returned, and the queue entry it read.  A clock step
\* clears it, so wherever last.op names a handler, now is still the value
\* that handler read from Date.now().
Did(op, success, ok, card) ==
    [op |-> op, success |-> success, ok |-> ok, card |-> card]

None == Did("none", FALSE, TRUE, NoCard)

\* before: the decks and the session state as the step taken last found them
Snapshot ==
    [cards |-> cards, stored |-> stored, isReviewing |-> isReviewing,
     isGenerating |-> isGenerating, reviewQueue |-> reviewQueue,
     currentCardIndex |-> currentCardIndex, isFlipped |-> isFlipped,
     failures |-> failures]

-----------------------------------------------------------------------------
(* The quiz: constants, questions, answers *)

\* export const MAX_TIME_SECONDS = 45 * 60
MAX_TIME_SECONDS == 45 * 60

\* seconds the countdown loses in one step of the model: one tick of its
\* interval, or the ticks of a long stretch in which nothing else happens
TimerSteps == {1, MAX_TIME_SECONDS - 1}

\* QuizMode
Modes == {"TIMED", "UNTIMED", "PRACTICE", "STREAK"}

\* the indices of the options of a question
Options == {0, 1}

\* a Question, reduced to the fields the runner reads
Question(id, correctIndex) == [id |-> id, correctIndex |-> correctIndex]

\* what generateQuizQuestions may resolve with: 1..MaxQuestions questions,
\* numbered from 1 (id: index + 1), the correct option alternating
GeneratedQuizzes ==
    { [i \in 1..n |-> Question(i, i % 2)] : n \in 1..MaxQuestions }

\* {}: no question answered
NoAnswers == [k \in {} |-> 0]

\* {...a, [i]: v}
Put(a, i, v) == [k \in (DOMAIN a) \cup {i} |-> IF k = i THEN v ELSE a[k]]

\* const next = {...a}; delete next[i]
Without(a, i) == [k \in (DOMAIN a) \ {i} |-> a[k]]

\* Set.has on a Set kept in insertion order
Has(s, x) == \E k \in 1..Len(s) : s[k] = x

\* Set.add, Set.delete
SetAdd(s, x) == IF Has(s, x) THEN s ELSE Append(s, x)
SetDelete(s, x) == SelectSeq(s, LAMBDA e : e # x)

\* the QuizRunner is rendered: currentView === 'QUIZ' and IN_PROGRESS
RunnerMounted == currentView = "QUIZ" /\ quizState = "IN_PROGRESS"

\* const currentQuestion = questions[currentQuestionIndex]
currentQuestion == questions[currentQuestionIndex + 1]

isExamMode == selectedMode \in {"TIMED", "UNTIMED"}
isPracticeOrStreak == selectedMode \in {"PRACTICE", "STREAK"}

\* answers[currentQuestionIndex] !== undefined
isAnswered == currentQuestionIndex \in DOMAIN answers

\* Object.keys(answers).length
answeredCount == Cardinality(DOMAIN answers)

\* the state of a QuizRunner after these assignments
SetRunner(index, ans, marks, seconds, submitting, quit, unanswered) ==
    /\ currentQuestionIndex' = index
    /\ answers' = ans
    /\ bookmarks' = marks
    /\ secondsLeft' = seconds
    /\ isSubmitting' = submitting
    /\ showQuitConfirm' = quit
    /\ showUnansweredConfirm' = unanswered

\* the useState initial values of QuizRunner: its state when it is mounted,
\* and the values the model keeps while it is not
FreshRunner == SetRunner(0, NoAnswers, <<>>, MAX_TIME_SECONDS, FALSE, FALSE, FALSE)

\* a setTimeout callback: the onComplete call it will make, the run that
\* started it, and whether the countdown ticked since
Completion(kind, run, ans, time, marks) ==
    [kind |-> kind, run |-> run, answers |-> ans, timeTaken |-> time,
     bookmarks |-> marks, ticked |-> FALSE]

\* the quiz state of App after construction, with no QuizRunner mounted
QuizAtRest(view) ==
    /\ currentView = view
    /\ quizState = "IDLE"
    /\ selectedMode = "TIMED"
    /\ questions = <<>>
    /\ userAnswers = NoAnswers
    /\ appBookmarks = <<>>
    /\ timeTaken = 0
    /\ loading = FALSE
    /\ currentQuestionIndex = 0
    /\ answers = NoAnswers
    /\ bookmarks = <<>>
    /\ secondsLeft = MAX_TIME_SECONDS
    /\ isSubmitting = FALSE
    /\ showQuitConfirm = FALSE
    /\ showUnansweredConfirm = FALSE
    /\ pending = {}
    /\ runs = 0
    /\ completed = <<>>
    /\ quitRuns = {}
    /\ timerSteps = 0

-----------------------------------------------------------------------------
(* Initial state: the component mounted and its load effect ran *)

Init ==
    /\ \E deck \in SavedDecks \cup {seed(T0)} :
          /\ cards = deck
          /\ stored = deck
    /\ isReviewing = FALSE
    /\ isGenerating = FALSE
    /\ reviewQueue = <<>>
    /\ currentCardIndex = 0
    /\ isFlipped = FALSE
    /\ now = T0
    /\ ticks = 0
    /\ failures = 0
    /\ last = Did("mount", FALSE, TRUE, NoCard)
    /\ upserts = <<>>
    /\ writes = 0
    /\ before = Snapshot
    /\ QuizAtRest("FLASHCARDS")

-----------------------------------------------------------------------------
(* Actions *)

\* time passes between two handlers
Tick ==
    /\ ticks < MaxTicks
    /\ \E d \in TickSteps : now' = now + d
    /\ ticks' = ticks + 1
    /\ last' = None
    /\ UNCHANGED <<cards, stored, isReviewing, isGenerating, reviewQueue, currentCardIndex, isFlipped,
                   failures, upserts, writes>>
    /\ before' = Snapshot
    /\ UNCHANGED quizVars

\* a start that leaves the card turned as the previous session left it
startReviewKeepingFlip ==
    /\ DashboardView
    /\ Len(DueCards(cards, now)) # 0
    /\ reviewQueue' = DueQueue(cards, now)
    /\ currentCardIndex' = 0
    /\ isReviewing' = TRUE
    /\ upserts' = <<>>
    /\ writes' = 0
    /\ last' = Did("start", FALSE, TRUE, NoCard)
    /\ UNCHANGED <<cards, stored, isGenerating, isFlipped,
                   now, ticks, failures>>
    /\ before' = Snapshot
    /\ UNCHANGED quizVars

\* startReview, behind the Start Session button (disabled without due cards)
startReview ==
    /\ DashboardView
    /\ Len(DueCards(cards, now)) # 0
    /\ reviewQueue' = DueQueue(cards, now)
    /\ currentCardIndex' = 0
    /\ isFlipped' = FALSE
    /\ isReviewing' = TRUE
    /\ upserts' = <<>>
    /\ writes' = 0
    /\ last' = Did("start", FALSE, TRUE, NoCard)
    /\ UNCHANGED <<cards, stored, isGenerating,
                   now, ticks, failures>>
    /\ before' = Snapshot
    /\ UNCHANGED quizVars

\* outcomes of a localStorage.setItem call: it returns, or it throws
\* (QuotaExceededError) while the model's budget of failures lasts
SetItemOutcomes == IF failures < MaxFailures THEN BOOLEAN ELSE {TRUE}

\* saveCards: setCards(newCards), then localStorage.setItem(...), which
\* returns (ok) or throws; writes counts the calls made while a session runs
saveCards(newCards, ok) ==
    /\ cards' = newCards
    /\ stored' = IF ok THEN newCards ELSE stored
    /\ failures' = IF ok THEN failures ELSE failures + 1
    /\ writes' = IF isReviewing THEN writes + 1 ELSE writes

\* a flip that also saves the deck
onFlipAndSave ==
    /\ ReviewView
    /\ isFlipped' = ~isFlipped
    /\ saveCards(cards, TRUE)
    /\ last' = Did("flip", FALSE, TRUE, NoCard)
    /\ UNCHANGED <<isReviewing, isGenerating, reviewQueue, currentCardIndex,
                   now, ticks, upserts>>
    /\ before' = Snapshot
    /\ UNCHANGED quizVars

\* a flip that, when it hides the answer again, also skips to the next card
onFlipSkipping ==
    /\ ReviewView
    /\ isFlipped' = ~isFlipped
    /\ currentCardIndex' = IF isFlipped /\ currentCardIndex < Len(reviewQueue) - 1
                           THEN currentCardIndex + 1 ELSE currentCardIndex
    /\ last' = Did("flip", FALSE, TRUE, NoCard)
    /\ UNCHANGED <<cards, stored, isReviewing, isGenerating, reviewQueue, now, ticks,
                   failures, upserts, writes>>
    /\ before' = Snapshot
    /\ UNCHANGED quizVars

\* onFlip: setIsFlipped(!isFlipped), a click on the card
onFlip ==
    /\ ReviewView
    /\ isFlipped' = ~isFlipped
    /\ last' = Did("flip", FALSE, TRUE, NoCard)
    /\ UNCHANGED <<cards, stored, isReviewing, isGenerating, reviewQueue, currentCardIndex, now, ticks,
                   failures, upserts, writes>>
    /\ before' = Snapshot
    /\ UNCHANGED quizVars

\* a quit that records the pending card as failed before it leaves
QuitRecordingLapse ==
    /\ ReviewView
    /\ saveCards(UpdatedCards(cards, reviewQueue[currentCardIndex + 1].id,
                              0, now + Day), TRUE)
    /\ isReviewing' = FALSE
    /\ last' = Did("quit", FALSE, TRUE, NoCard)
    /\ UNCHANGED <<isGenerating, reviewQueue, currentCardIndex, isFlipped, now,
                   ticks, upserts>>
    /\ before' = Snapshot
    /\ UNCHANGED quizVars

\* the Quit button of the review view: setIsReviewing(false)
Quit ==
    /\ ReviewView
    /\ isReviewing' = FALSE
    /\ last' = Did("quit", FALSE, TRUE, NoCard)
    /\ UNCHANGED <<cards, stored, isGenerating,
                   reviewQueue, currentCardIndex, isFlipped, now, ticks,
                   failures, upserts, writes>>
    /\ before' = Snapshot
    /\ UNCHANGED quizVars

\* lines 128-133: the next card, or the end of the session
Advance ==
    IF currentCardIndex < Len(reviewQueue) - 1
    THEN /\ isFlipped' = FALSE
         /\ currentCardIndex' = currentCardIndex + 1
         /\ UNCHANGED isReviewing
    ELSE /\ isReviewing' = FALSE
         /\ UNCHANGED <<isFlipped, currentCardIndex>>

\* an outcome handler that also writes the new box and nextReview into the
\* queue entry of the reviewed card
handleReviewResultRefreshingQueue(success, ok) ==
    /\ ReviewView
    /\ LET currentCard == reviewQueue[currentCardIndex + 1]
           newBox      == NewBox(currentCard.box, success)
           nextReview  == NextReview(newBox, success, now)
       IN  /\ saveCards(UpdatedCards(cards, currentCard.id, newBox, nextReview), ok)
           /\ reviewQueue' = UpdatedCards(reviewQueue, currentCard.id, newBox, nextReview)
           /\ upserts' = Append(upserts,
                                [id |-> currentCard.id, success |-> success, ok |-> ok])
           /\ last' = Did("review", success, ok, currentCard)
    /\ IF ok THEN Advance
             ELSE UNCHANGED <<isFlipped, currentCardIndex, isReviewing>>
    /\ UNCHANGED <<isGenerating, now, ticks>>
    /\ before' = Snapshot
    /\ UNCHANGED quizVars

\* handleReviewResult(success), behind the Again and Good buttons.  The
\* buttons are rendered in the review view whatever isFlipped is: while the
\* card is not flipped their container only carries opacity-0 and
\* pointer-events-none, which leaves them focusable and operable from the
\* keyboard.  When setItem throws inside saveCards the exception leaves the
\* handler before lines 128-133; the setCards call made before it stands.
handleReviewResult(success, ok) ==
    /\ ReviewView
    /\ LET currentCard == reviewQueue[currentCardIndex + 1]
           newBox      == NewBox(currentCard.box, success)
           nextReview  == NextReview(newBox, success, now)
       IN  /\ saveCards(UpdatedCards(cards, currentCard.id, newBox, nextReview), ok)
           /\ upserts' = Append(upserts,
                                [id |-> currentCard.id, success |-> success, ok |-> ok])
           /\ last' = Did("review", success, ok, currentCard)
    /\ IF ok THEN Advance
             ELSE UNCHANGED <<isFlipped, currentCardIndex, isReviewing>>
    /\ UNCHANGED <<isGenerating, reviewQueue,
                   now, ticks>>
    /\ before' = Snapshot
    /\ UNCHANGED quizVars

\* topicInput.trim()
Trim(s) == IF s = " " THEN "" ELSE s

\* handleGenerate up to its await, with the text the topic field holds when
\* Generate is clicked: the guard of line 53 and setIsGenerating(true).  The
\* modal and the topic field (showGenerateModal, topicInput) only decide
\* what is rendered and what is passed to the provider; they are not kept.
handleGenerate(topic) ==
    /\ DashboardView
    /\ Trim(topic) # ""
    /\ isGenerating' = TRUE
    /\ last' = Did("generate", FALSE, TRUE, NoCard)
    /\ UNCHANGED <<cards, stored, isReviewing,
                   reviewQueue, currentCardIndex, isFlipped, now, ticks,
                   failures, upserts, writes>>
    /\ before' = Snapshot
    /\ UNCHANGED quizVars

\* newCardsData.map(c => ({...c, id: Math.random()..., box: 0,
\*                         nextReview: Date.now(), createdAt: Date.now()}))
NewCards(records, ids, t) ==
    [i \in 1..Len(records) |->
        Card(ids[i], records[i].front, records[i].back, records[i].topic, 0, t, t)]

\* handleGenerate after generateFlashCards resolved: the new cards are
\* appended and saved; a throwing setItem lands in the catch block
generateResolved(records, ids, ok) ==
    /\ isGenerating
    /\ saveCards(cards \o NewCards(records, ids, now), ok)
    /\ last' = IF ok THEN Did("generated", TRUE, TRUE, NoCard)
                   ELSE Did("alert", TRUE, FALSE, NoCard)
    /\ isGenerating' = FALSE
    /\ UNCHANGED <<isReviewing, reviewQueue, currentCardIndex, isFlipped, now,
                   ticks, upserts>>
    /\ before' = Snapshot
    /\ UNCHANGED quizVars

\* a rejected generation that saves one card of the batch before it alerts
generateRejectedAfterPartialSave ==
    /\ isGenerating
    /\ saveCards(IF Len(cards) < MaxCards
                 THEN cards \o NewCards(<<CHOOSE r \in ProviderRecords : TRUE>>,
                                        <<"k3x9">>, now)
                 ELSE cards, TRUE)
    /\ isGenerating' = FALSE
    /\ last' = Did("alert", FALSE, TRUE, NoCard)
    /\ UNCHANGED <<isReviewing, reviewQueue, currentCardIndex, isFlipped, now,
                   ticks, upserts>>
    /\ before' = Snapshot
    /\ UNCHANGED quizVars

\* handleGenerate after generateFlashCards rejected: the catch block alerts
generateRejected ==
    /\ isGenerating
    /\ isGenerating' = FALSE
    /\ last' = Did("alert", FALSE, TRUE, NoCard)
    /\ UNCHANGED <<cards, stored, isReviewing,
                   reviewQueue, currentCardIndex, isFlipped, now, ticks,
                   failures, upserts, writes>>
    /\ before' = Snapshot
    /\ UNCHANGED quizVars

\* Back to Home and a return to the flash cards: the component is mounted
\* again and its load effect reads the deck localStorage holds
Remount ==
    /\ DashboardView
    /\ cards' = stored
    /\ isReviewing' = FALSE
    /\ reviewQueue' = <<>>
    /\ currentCardIndex' = 0
    /\ isFlipped' = FALSE
    /\ upserts' = <<>>
    /\ writes' = 0
    /\ last' = Did("mount", FALSE, TRUE, NoCard)
    /\ UNCHANGED <<stored, isGenerating, now, ticks, failures>>
    /\ before' = Snapshot
    /\ UNCHANGED quizVars

Next ==
    \/ Tick
    \/ startReview
    \/ onFlip
    \/ Quit
    \/ \E success \in BOOLEAN, ok \in SetItemOutcomes : handleReviewResult(success, ok)
    \/ \E topic \in TopicInputs : handleGenerate(topic)
    \/ \E n \in 0..(MaxCards - Len(cards)) :
             \E records \in [1..n -> ProviderRecords], ids \in [1..n -> GenIds],
                ok \in SetItemOutcomes : generateResolved(records, ids, ok)
    \/ generateRejected
    \/ Remount

Spec == Init /\ [][Next]_vars

-----------------------------------------------------------------------------
(* The quiz: App.tsx and QuizRunner *)

\* the flash-card manager is not mounted and nothing is stored yet
FlashAtRest ==
    /\ cards = <<>>
    /\ stored = <<>>
    /\ isReviewing = FALSE
    /\ isGenerating = FALSE
    /\ reviewQueue = <<>>
    /\ currentCardIndex = 0
    /\ isFlipped = FALSE
    /\ now = T0
    /\ ticks = 0
    /\ failures = 0
    /\ last = None
    /\ upserts = <<>>
    /\ writes = 0
    /\ before = Snapshot

\* App after construction: the HOME view
QuizInit == QuizAtRest("HOME") /\ FlashAtRest

\* the App state a handler of QuizRunner cannot reach
appVars == <<currentView, quizState, selectedMode, questions, userAnswers, appBookmarks,
             timeTaken, loading, runs, quitRuns>>

\* App.handleQuizComplete(answers, time, finalBookmarks)
handleQuizComplete(ans, time, finalBookmarks) ==
    /\ userAnswers' = ans
    /\ timeTaken' = time
    /\ appBookmarks' = finalBookmarks
    /\ quizState' = "COMPLETED"

\* App.startQuiz(mode) up to its await, from a mode button of the HOME view.
\* showModeSelect and error only decide what is rendered; they are not kept.
\* One generateQuizQuestions call is in flight at a time.
startQuiz(mode) ==
    /\ currentView = "HOME"
    /\ ~loading
    /\ runs < MaxRuns
    /\ selectedMode' = mode
    /\ currentView' = "QUIZ"
    /\ quizState' = "LOADING"
    /\ appBookmarks' = <<>>
    /\ loading' = TRUE
    /\ runs' = runs + 1
    /\ timerSteps' = 0
    /\ UNCHANGED <<questions, userAnswers, timeTaken, runnerVars, pending, completed,
                   quitRuns>>
    /\ UNCHANGED flashVars

\* App.startQuiz after generateQuizQuestions resolved.  The call takes longer
\* than the 1.5 s of the longest timer, so no callback is pending any more.
\* With currentView at QUIZ the QuizRunner is mounted, in its initial state.
quizLoaded(qs) ==
    /\ loading
    /\ pending = {}
    /\ questions' = qs
    /\ quizState' = "IN_PROGRESS"
    /\ loading' = FALSE
    /\ UNCHANGED <<currentView, selectedMode, userAnswers, appBookmarks, timeTaken,
                   runnerVars, pending, runs, completed, quitRuns,
                   timerSteps>>
    /\ UNCHANGED flashVars

\* App.startQuiz after generateQuizQuestions rejected: the catch block
quizLoadFailed ==
    /\ loading
    /\ quizState' = "ERROR"
    /\ loading' = FALSE
    /\ UNCHANGED <<currentView, selectedMode, questions, userAnswers, appBookmarks,
                   timeTaken, runnerVars, pending, runs, completed, quitRuns,
                   timerSteps>>
    /\ UNCHANGED flashVars

\* App.handleRetryQuiz, behind the Retry button of the results view
handleRetryQuiz ==
    /\ currentView = "QUIZ"
    /\ quizState = "COMPLETED"
    /\ ~loading
    /\ runs < MaxRuns
    /\ questions' = <<>>
    /\ userAnswers' = NoAnswers
    /\ appBookmarks' = <<>>
    /\ timeTaken' = 0
    /\ quizState' = "LOADING"
    /\ loading' = TRUE
    /\ runs' = runs + 1
    /\ timerSteps' = 0
    /\ UNCHANGED <<currentView, selectedMode, runnerVars, pending, completed, quitRuns>>
    /\ UNCHANGED flashVars

\* App.handleBackToHome: the Home button of the results view, Return Home
\* of the error view, and onQuit behind the Quit button of the runner's
\* quit confirmation.  A mounted QuizRunner is unmounted.
handleBackToHome ==
    /\ currentView = "QUIZ"
    /\ quizState \in {"COMPLETED", "ERROR"}
                         \cup (IF showQuitConfirm THEN {"IN_PROGRESS"} ELSE {})
    /\ currentView' = "HOME"
    /\ quizState' = "IDLE"
    /\ FreshRunner
    /\ quitRuns' = IF quizState = "IN_PROGRESS" THEN quitRuns \cup {runs} ELSE quitRuns
    /\ UNCHANGED <<selectedMode, questions, userAnswers, appBookmarks, timeTaken, loading,
                   pending, runs, completed, timerSteps>>
    /\ UNCHANGED flashVars

\* an option handler without the early return for a question already
\* answered in Practice or Streak mode
handleOptionSelectAgain(optionIndex) ==
    /\ RunnerMounted
    /\ ~isSubmitting
    /\ answers' = Put(answers, currentQuestionIndex, optionIndex)
    /\ IF selectedMode = "STREAK" /\ optionIndex # currentQuestion.correctIndex
       THEN /\ isSubmitting' = TRUE
            /\ pending' = pending \cup
                  {Completion("streak", runs,
                              Put(answers, currentQuestionIndex, optionIndex), 0, bookmarks)}
       ELSE UNCHANGED <<isSubmitting, pending>>
    /\ UNCHANGED <<appVars, currentQuestionIndex, bookmarks, secondsLeft,
                   showQuitConfirm, showUnansweredConfirm, completed, timerSteps>>
    /\ UNCHANGED flashVars

\* an option handler whose wrong answer in Streak mode schedules the
\* completion but does not lock the runner
handleOptionSelectUnlocked(optionIndex) ==
    /\ RunnerMounted
    /\ ~isSubmitting
    /\ ~(isPracticeOrStreak /\ isAnswered)
    /\ answers' = Put(answers, currentQuestionIndex, optionIndex)
    /\ IF selectedMode = "STREAK" /\ optionIndex # currentQuestion.correctIndex
       THEN pending' = pending \cup
                {Completion("streak", runs,
                            Put(answers, currentQuestionIndex, optionIndex), 0, bookmarks)}
       ELSE UNCHANGED pending
    /\ UNCHANGED <<appVars, currentQuestionIndex, bookmarks, secondsLeft, isSubmitting,
                   showQuitConfirm, showUnansweredConfirm, completed, timerSteps>>
    /\ UNCHANGED flashVars

\* QuizRunner.handleOptionSelect(optionIndex), behind the option buttons,
\* which are disabled under the conditions of its two early returns.  In
\* Streak mode a wrong option sets isSubmitting and starts the 1500 ms timer.
handleOptionSelect(optionIndex) ==
    /\ RunnerMounted
    /\ ~isSubmitting
    /\ ~(isPracticeOrStreak /\ isAnswered)
    /\ answers' = Put(answers, currentQuestionIndex, optionIndex)
    /\ IF selectedMode = "STREAK" /\ optionIndex # currentQuestion.correctIndex
       THEN /\ isSubmitting' = TRUE
            /\ pending' = pending \cup
                  {Completion("streak", runs,
                              Put(answers, currentQuestionIndex, optionIndex), 0, bookmarks)}
       ELSE UNCHANGED <<isSubmitting, pending>>
    /\ UNCHANGED <<appVars, currentQuestionIndex, bookmarks, secondsLeft,
                   showQuitConfirm, showUnansweredConfirm, completed, timerSteps>>
    /\ UNCHANGED flashVars

\* QuizRunner.toggleBookmark
toggleBookmark ==
    /\ RunnerMounted
    /\ bookmarks' = IF Has(bookmarks, currentQuestionIndex)
                    THEN SetDelete(bookmarks, currentQuestionIndex)
                    ELSE SetAdd(bookmarks, currentQuestionIndex)
    /\ UNCHANGED <<appVars, currentQuestionIndex, answers, secondsLeft, isSubmitting,
                   showQuitConfirm, showUnansweredConfirm, pending, completed, timerSteps>>
    /\ UNCHANGED flashVars

\* QuizRunner.handleNext behind the Next button, which is rendered before the
\* last question only and is disabled while submitting and, in Practice and
\* Streak mode, while the question is unanswered.  The else branch of the
\* handler (handleSubmit on the last question) has no button that calls it.
handleNext ==
    /\ RunnerMounted
    /\ currentQuestionIndex < Len(questions) - 1
    /\ ~isSubmitting
    /\ ~(isPracticeOrStreak /\ ~isAnswered)
    /\ currentQuestionIndex' = currentQuestionIndex + 1
    /\ UNCHANGED <<appVars, answers, bookmarks, secondsLeft, isSubmitting,
                   showQuitConfirm, showUnansweredConfirm, pending, completed, timerSteps>>
    /\ UNCHANGED flashVars

\* QuizRunner.handleSkip behind the Skip button, rendered in the exam modes
\* before the last question
handleSkip ==
    /\ RunnerMounted
    /\ isExamMode
    /\ currentQuestionIndex < Len(questions) - 1
    /\ ~isSubmitting
    /\ answers' = Without(answers, currentQuestionIndex)
    /\ bookmarks' = SetAdd(bookmarks, currentQuestionIndex)
    /\ currentQuestionIndex' = currentQuestionIndex + 1
    /\ UNCHANGED <<appVars, secondsLeft, isSubmitting,
                   showQuitConfirm, showUnansweredConfirm, pending, completed, timerSteps>>
    /\ UNCHANGED flashVars

\* QuizRunner.handlePrev behind the Previous button of the exam modes
handlePrev ==
    /\ RunnerMounted
    /\ ~isPracticeOrStreak
    /\ currentQuestionIndex > 0
    /\ ~isSubmitting
    /\ currentQuestionIndex' = currentQuestionIndex - 1
    /\ UNCHANGED <<appVars, answers, bookmarks, secondsLeft, isSubmitting,
                   showQuitConfirm, showUnansweredConfirm, pending, completed, timerSteps>>
    /\ UNCHANGED flashVars

\* a handleSubmit that reports the seconds left instead of the seconds used
handleSubmitRemaining ==
    /\ showUnansweredConfirm' = FALSE
    /\ isSubmitting' = TRUE
    /\ pending' = pending \cup
          {Completion("submit", runs, answers,
                      IF selectedMode = "TIMED" THEN secondsLeft ELSE 0,
                      bookmarks)}

\* QuizRunner.handleSubmit: the 800 ms timer that will call onComplete with
\* the answers, the time and the bookmarks of this render
handleSubmit ==
    /\ showUnansweredConfirm' = FALSE
    /\ isSubmitting' = TRUE
    /\ pending' = pending \cup
          {Completion("submit", runs, answers,
                      IF selectedMode = "TIMED" THEN MAX_TIME_SECONDS - secondsLeft ELSE 0,
                      bookmarks)}

\* QuizRunner.handleFinishClick behind the Finish button of the header (exam
\* modes) and the Finish Test button of the last question
handleFinishClick ==
    /\ RunnerMounted
    /\ ~isSubmitting
    /\ IF isExamMode THEN TRUE
       ELSE currentQuestionIndex = Len(questions) - 1 /\ isAnswered
    /\ IF isExamMode /\ answeredCount < Len(questions)
       THEN /\ showUnansweredConfirm' = TRUE
            /\ UNCHANGED <<isSubmitting, pending>>
       ELSE handleSubmit
    /\ UNCHANGED <<appVars, currentQuestionIndex, answers, bookmarks, secondsLeft,
                   showQuitConfirm, completed, timerSteps>>
    /\ UNCHANGED flashVars

\* Submit Anyway of the unanswered-questions dialog: handleSubmit
submitAnyway ==
    /\ RunnerMounted
    /\ showUnansweredConfirm
    /\ handleSubmit
    /\ UNCHANGED <<appVars, currentQuestionIndex, answers, bookmarks, secondsLeft,
                   showQuitConfirm, completed, timerSteps>>
    /\ UNCHANGED flashVars

\* Review of the unanswered-questions dialog
reviewUnanswered ==
    /\ RunnerMounted
    /\ showUnansweredConfirm
    /\ showUnansweredConfirm' = FALSE
    /\ UNCHANGED <<appVars, currentQuestionIndex, answers, bookmarks, secondsLeft,
                   isSubmitting, showQuitConfirm, pending, completed, timerSteps>>
    /\ UNCHANGED flashVars

\* the X button of the header: setShowQuitConfirm(true)
openQuitConfirm ==
    /\ RunnerMounted
    /\ showQuitConfirm' = TRUE
    /\ UNCHANGED <<appVars, currentQuestionIndex, answers, bookmarks, secondsLeft,
                   isSubmitting, showUnansweredConfirm, pending, completed, timerSteps>>
    /\ UNCHANGED flashVars

\* Cancel of the quit dialog
cancelQuit ==
    /\ RunnerMounted
    /\ showQuitConfirm
    /\ showQuitConfirm' = FALSE
    /\ UNCHANGED <<appVars, currentQuestionIndex, answers, bookmarks, secondsLeft,
                   isSubmitting, showUnansweredConfirm, pending, completed, timerSteps>>
    /\ UNCHANGED flashVars

\* one step of the countdown of the Timer, rendered in Timed mode only: d
\* ticks of its one-second interval.  Several ticks in one step stand for a
\* stretch in which nothing else happens, so no timer callback is pending;
\* an 800 ms timer sees at most one tick before it runs.  When secondsLeft
\* reaches 0 the effect of the Timer calls onTimeUp, QuizRunner.handleTimeUp,
\* which calls onComplete at once.
TimerTick(d) ==
    /\ RunnerMounted
    /\ selectedMode = "TIMED"
    /\ timerSteps < MaxTimerSteps
    /\ secondsLeft > 0
    /\ d <= secondsLeft
    /\ d > 1 => pending = {}
    /\ \A p \in pending : ~p.ticked
    /\ timerSteps' = timerSteps + 1
    /\ pending' = { [p EXCEPT !.ticked = TRUE] : p \in pending }
    /\ IF secondsLeft - d > 0
       THEN /\ secondsLeft' = secondsLeft - d
            /\ UNCHANGED <<quizState, userAnswers, appBookmarks, timeTaken,
                           currentQuestionIndex, answers, bookmarks, isSubmitting,
                           showQuitConfirm, showUnansweredConfirm, completed>>
       ELSE /\ handleQuizComplete(answers, MAX_TIME_SECONDS, bookmarks)
            /\ FreshRunner
            /\ completed' = Append(completed, [kind |-> "timeup", run |-> runs])
    /\ UNCHANGED <<currentView, selectedMode, questions, loading, runs, quitRuns>>
    /\ UNCHANGED flashVars

\* a setTimeout callback runs: onComplete(...), App.handleQuizComplete.  The
\* timers are not cleared when the QuizRunner is unmounted, so the callback
\* runs whether or not the runner that started it is still there.
timeoutFires(p) ==
    /\ p \in pending
    /\ pending' = pending \ {p}
    /\ handleQuizComplete(p.answers, p.timeTaken, p.bookmarks)
    /\ FreshRunner
    /\ completed' = Append(completed, [kind |-> p.kind, run |-> p.run])
    /\ UNCHANGED <<currentView, selectedMode, questions, loading, runs, quitRuns,
                   timerSteps>>
    /\ UNCHANGED flashVars

QuizNext ==
    \/ \E mode \in Modes : startQuiz(mode)
    \/ \E qs \in GeneratedQuizzes : quizLoaded(qs)
    \/ quizLoadFailed
    \/ handleRetryQuiz
    \/ handleBackToHome
    \/ \E optionIndex \in Options : handleOptionSelect(optionIndex)
    \/ toggleBookmark
    \/ handleNext
    \/ handleSkip
    \/ handlePrev
    \/ handleFinishClick
    \/ submitAnyway
    \/ reviewUnanswered
    \/ openQuitConfirm
    \/ cancelQuit
    \/ \E d \in TimerSteps : TimerTick(d)
    \/ \E p \in pending : timeoutFires(p)

QuizSpec == QuizInit /\ [][QuizNext]_vars

-----------------------------------------------------------------------------
(* Properties *)

\* the cards of the deck that carry the id of the card reviewed last
Reviewed == { i \in 1..Len(cards) : cards[i].id = last.card.id }

\* a handleReviewResult step: it alone extends the log of outcomes
OutcomeStep == Len(upserts') = Len(upserts) + 1

\* a Quit step: the only step that changes the state and leaves last at quit
QuitStep == last'.op = "quit" /\ vars' # vars

\* C1: after handleReviewResult(false) the reviewed card is in box 0 and is
\* due exactly one day (86,400 s = 86,400,000 ms) after the Date.now() of the
\* call, whatever box in 0..6 the card was in.
C1_FailureResetsToBoxZero ==
    (last.op = "review" /\ ~last.success) =>
        /\ last.card.box \in 0..6
        /\ Reviewed # {}
        /\ \A i \in Reviewed :
              /\ cards[i].box = 0
              /\ cards[i].nextReview = now + 86400

C1_Witness ==
    /\ last.op = "review" /\ ~last.success /\ last.ok
    /\ last.card.box = 6
    /\ \E i \in Reviewed : cards[i].box = 0

\* C2: after handleReviewResult(true) the reviewed card is in box
\* min(box + 1, 6), where box in 0..6 is the box of the card the handler read.
C2_SuccessPromotesByOne ==
    (last.op = "review" /\ last.success) =>
        /\ last.card.box \in 0..6
        /\ Reviewed # {}
        /\ \A i \in Reviewed :
              cards[i].box = (IF last.card.box + 1 < 6 THEN last.card.box + 1 ELSE 6)

C2_Witness ==
    /\ last.op = "review" /\ last.success /\ last.ok
    /\ last.card.box = 5
    /\ \E i \in Reviewed : cards[i].box = 6

\* C3: after handleReviewResult(true) the reviewed card is due
\* table[newBox - 1] days after the Date.now() of the call, with
\* table = [1, 3, 7, 14, 30, 90] and newBox the box after promotion: 1 day
\* from box 0, 3 from box 1, 7 from box 2, 14 from box 3, 30 from box 4 and
\* 90 days from box 5.
C3_SuccessInterval ==
    (last.op = "review" /\ last.success) =>
        \A i \in Reviewed :
            /\ cards[i].box \in 1..6
            /\ cards[i].nextReview = now + <<1, 3, 7, 14, 30, 90>>[cards[i].box] * 86400
            /\ last.card.box = 0 => cards[i].nextReview = now + 1 * 86400
            /\ last.card.box = 1 => cards[i].nextReview = now + 3 * 86400
            /\ last.card.box = 2 => cards[i].nextReview = now + 7 * 86400
            /\ last.card.box = 3 => cards[i].nextReview = now + 14 * 86400
            /\ last.card.box = 4 => cards[i].nextReview = now + 30 * 86400
            /\ last.card.box = 5 => cards[i].nextReview = now + 90 * 86400

C3_Witness ==
    /\ last.op = "review" /\ last.success /\ last.ok
    /\ last.card.box = 2
    /\ \E i \in Reviewed : cards[i].nextReview = now + 7 * 86400

C5_BoxSixSaturates ==
    /\ (last.op = "review" /\ last.success /\ last.card.box = 6) =>
          /\ Reviewed # {}
          /\ \A i \in Reviewed :
                /\ cards[i].box = 6
                /\ cards[i].nextReview = now + 90 * 86400
    /\ \A i \in 1..Len(cards) :
          /\ cards[i].box <= 6
          /\ cards[i].nextReview <= now + 90 * 86400

C5_Witness ==
    /\ last.op = "review" /\ last.success /\ last.ok
    /\ last.card.box = 6
    /\ last.card.nextReview = T0 + 90 * 86400
    /\ \E i \in Reviewed : cards[i].box = 6 /\ cards[i].nextReview = now + 90 * 86400

\* the number of positions of a sequence that hold c
Count(s, c) == Cardinality({ i \in 1..Len(s) : s[i] = c })

\* C6: startReview builds the queue from exactly the cards of the deck with
\* nextReview <= now, each as often as the deck holds it, in ascending
\* order of nextReview; no card with nextReview > now is in the queue.
C6_QueueIsDueCardsAscending ==
    last.op = "start" =>
        /\ \A i \in 1..Len(reviewQueue) :
              /\ reviewQueue[i].nextReview <= now
              /\ \E j \in 1..Len(cards) : cards[j] = reviewQueue[i]
        /\ \A j \in 1..Len(cards) :
              /\ cards[j].nextReview <= now =>
                    Count(reviewQueue, cards[j]) = Count(cards, cards[j])
              /\ cards[j].nextReview > now => Count(reviewQueue, cards[j]) = 0
        /\ \A i, j \in 1..Len(reviewQueue) :
              i < j => reviewQueue[i].nextReview <= reviewQueue[j].nextReview

C6_Witness ==
    /\ last.op = "start"
    /\ Len(cards) = 3
    /\ Len(reviewQueue) = 2
    /\ reviewQueue[1].nextReview = now - 5
    /\ reviewQueue[2].nextReview = now - 1
    /\ \E j \in 1..Len(cards) : cards[j].nextReview = now + 1

\* C7: an outcome recorded while the session is Active and the card is
\* revealed moves the session to the next card, unrevealed, when
\* cursor + 1 < queue length, and ends it otherwise.
C7_OutcomeAdvancesOrEnds ==
    [][ (ReviewView /\ isFlipped /\ OutcomeStep) =>
            IF currentCardIndex + 1 < Len(reviewQueue)
            THEN /\ isReviewing'
                 /\ currentCardIndex' = currentCardIndex + 1
                 /\ ~isFlipped'
            ELSE ~isReviewing' ]_vars

\* C8: Quit, at any cursor and revealed or not, ends the session, leaves the
\* deck and the stored deck as they were, runs no scheduler step and makes
\* no localStorage write.
C8_QuitChangesNoCard ==
    [][ QuitStep =>
            /\ isReviewing /\ ~isReviewing'
            /\ cards' = cards
            /\ stored' = stored
            /\ writes' = writes
            /\ upserts' = upserts ]_vars

C8_Witness ==
    /\ last.op = "quit"
    /\ ~isReviewing
    /\ Len(reviewQueue) = 2
    /\ currentCardIndex = 1
    /\ Len(upserts) = 1
    /\ upserts[1].ok
    /\ writes = 1
    /\ \E i \in 1..Len(cards) : cards[i] = reviewQueue[2]
    /\ \E i \in 1..Len(stored) : stored[i] = reviewQueue[2]

\* C9: since the session started, localStorage.setItem was called once for
\* each outcome handled and not otherwise: flips, Quit and the start of the
\* session call it not at all.
C9_OneWritePerOutcome == writes = Len(upserts)

C9_Witness ==
    /\ last.op = "flip"
    /\ isFlipped
    /\ currentCardIndex = 1
    /\ Len(upserts) = 1
    /\ writes = 1

\* the ids of the outcomes handled since the session started
UpsertIds == { upserts[i].id : i \in 1..Len(upserts) }

\* C10: a session over N >= 1 cards that ended with its last outcome handled
\* N outcomes and made N writes, for N distinct ids; when all were successes
\* every card of the queue is in box min(starting box + 1, 6).
C10_FullSessionCounts ==
    (last.op = "review" /\ ~isReviewing) =>
        /\ Len(upserts) = Len(reviewQueue)
        /\ writes = Len(reviewQueue)
        /\ Cardinality(UpsertIds) = Len(reviewQueue)
        /\ (\A k \in 1..Len(upserts) : upserts[k].success) =>
              \A q \in 1..Len(reviewQueue) :
                 \A i \in 1..Len(cards) :
                    cards[i].id = reviewQueue[q].id =>
                       cards[i].box = (IF reviewQueue[q].box + 1 < 6
                                       THEN reviewQueue[q].box + 1 ELSE 6)

\* the review view was rendered before the last step
ReviewBefore ==
    /\ ~before.isGenerating
    /\ before.isReviewing
    /\ Len(before.reviewQueue) > 0

\* the ids of the cards in the review queue
QueueIds == { reviewQueue[i].id : i \in 1..Len(reviewQueue) }

\* C11: while a session is Active no step changes the review queue: flips,
\* outcomes, Quit and the passing of time leave its length, order and
\* contents as startReview built them, and a card that becomes due during
\* the session is not added.
C11_QueueFixedDuringSession ==
    ReviewBefore => reviewQueue = before.reviewQueue

\* a session in which an outcome was handled and a flip made, while a card
\* outside the queue has become due
C11_Witness ==
    /\ ReviewView
    /\ last.op = "flip"
    /\ Len(upserts) > 0
    /\ \E i \in 1..Len(cards) :
          /\ IsDue(cards[i], now)
          /\ cards[i].id \notin QueueIds

\* C12: while the session is Active and the answer of the current card is
\* hidden, no step records an outcome: the log of outcomes does not grow and
\* the deck and the stored deck keep every card as it was.
C12_OutcomeOnlyWhenRevealed ==
    [][ (ReviewView /\ ~isFlipped) =>
            /\ Len(upserts') = Len(upserts)
            /\ cards' = cards
            /\ stored' = stored ]_vars

\* the last step was an onFlip
FlipStep == last.op = "flip"

\* C13: a flip of a hidden card reveals it, and every flip, of a hidden or
\* of a revealed card, leaves the session Active at the same cursor with the
\* same queue and leaves every card of the deck and of the stored deck as it
\* was; a flip of a revealed card only turns the card back.
C13_FlipRevealsAndKeepsSession ==
    FlipStep =>
        /\ ReviewBefore
        /\ isFlipped = ~before.isFlipped
        /\ isReviewing = before.isReviewing
        /\ currentCardIndex = before.currentCardIndex
        /\ reviewQueue = before.reviewQueue
        /\ cards = before.cards
        /\ stored = before.stored

\* the second card of a queue, flipped while it was already revealed
C13_Witness ==
    /\ ReviewView
    /\ last.op = "flip"
    /\ ~isFlipped
    /\ currentCardIndex = 1
    /\ Len(reviewQueue) = 2
    /\ Len(upserts) = 1

\* the last step was a startReview
StartStep == last.op = "start"

\* C14: every startReview step (taken only with a due card) leaves the
\* review view rendered at cursor 0 with the card hidden, whatever cursor
\* and flip the session before left behind; and while no session is running
\* no step is a flip or an outcome.
C14_StartResetsAndEndedIsInert ==
    /\ StartStep =>
          /\ isReviewing /\ Len(reviewQueue) > 0
          /\ currentCardIndex = 0
          /\ ~isFlipped
    /\ ~before.isReviewing => (~FlipStep /\ last.op # "review")

\* a session just started over two cards that a session before it had
\* promoted to box 1
C14_Witness ==
    /\ last.op = "start"
    /\ ReviewView
    /\ currentCardIndex = 0
    /\ ~isFlipped
    /\ Len(reviewQueue) = 2
    /\ \A i \in 1..2 : reviewQueue[i].box = 1

\* the ids of the cards of a deck
CardIds(cs) == { cs[i].id : i \in 1..Len(cs) }

\* deck b holds every card of deck a at its position, with the same id,
\* front, back, topic and createdAt
KeepsCards(a, b) ==
    /\ Len(b) >= Len(a)
    /\ CardIds(a) \subseteq CardIds(b)
    /\ \A i \in 1..Len(a) :
          /\ b[i].id = a[i].id
          /\ b[i].front = a[i].front
          /\ b[i].back = a[i].back
          /\ b[i].topic = a[i].topic
          /\ b[i].createdAt = a[i].createdAt

\* C15: no step of a session, a review or a generation (every step but the
\* reload of the component) removes a card from the deck or from the stored
\* deck or changes the id, front, back, topic or createdAt of a card; an
\* outcome adds no card either, so that it changes box and nextReview only.
C15_CardsNeverDeleted ==
    last.op # "mount" =>
        /\ KeepsCards(before.cards, cards)
        /\ KeepsCards(before.stored, stored)
        /\ last.op = "review" => Len(cards) = Len(before.cards)

\* the seed deck after a generation of one card and a successful review of
\* card 1
C15_Witness ==
    /\ last.op = "review" /\ last.success /\ last.ok
    /\ last.card.id = "1"
    /\ Len(cards) = 3
    /\ cards[1] = [seed(T0)[1] EXCEPT !.box = 1, !.nextReview = now + 86400]
    /\ cards[2] = seed(T0)[2]
    /\ cards[3].id \in GenIds
    /\ stored = cards

\* a deck of four cards in boxes 0, 2, 4 and 5
BoxesDeck ==
    [i \in 1..4 |-> Card("1", "", "", "", <<0, 2, 4, 5>>[i], T0, T0)]

\* C16: the stats computed from the deck and the clock are the number of
\* cards, the number of cards with nextReview <= now and the number of
\* cards with box >= 4; a deck with boxes 0, 2, 4, 5 has two mastered cards.
C16_StatsCountDeck ==
    /\ stats(cards, now).totalCards = Len(cards)
    /\ stats(cards, now).dueCards =
          Cardinality({ i \in 1..Len(cards) : cards[i].nextReview <= now })
    /\ stats(cards, now).masteredCards =
          Cardinality({ i \in 1..Len(cards) : cards[i].box >= 4 })
    /\ stats(BoxesDeck, T0).masteredCards = 2

\* after a review that promoted card 1 to box 4: three cards, all three
\* mastered, one of them due
C16_Witness ==
    /\ last.op = "review" /\ last.success
    /\ last.card.box = 3
    /\ stats(cards, now) = [totalCards |-> 3, dueCards |-> 1, masteredCards |-> 3]

\* the last step was the return of handleGenerate after the provider failed:
\* last records in success whether generateFlashCards resolved
ProviderFailedStep == before.isGenerating /\ ~isGenerating /\ ~last.success

\* C17: the step that ends a generation whose provider failed shows the
\* alert, makes no write and leaves the deck and the stored deck unchanged;
\* no step that requests a generation or passes while it is pending changes
\* them either, and once the alert is shown isGenerating is false.
C17_ProviderFailureChangesNothing ==
    /\ ProviderFailedStep =>
          /\ last.op = "alert"
          /\ cards = before.cards
          /\ stored = before.stored
          /\ failures = before.failures
    /\ isGenerating => (cards = before.cards /\ stored = before.stored)
    /\ last.op = "alert" => ~isGenerating

\* the alert of a failed provider, over a deck whose first card an earlier
\* review had promoted
C17_Witness ==
    /\ last = Did("alert", FALSE, TRUE, NoCard)
    /\ ~isGenerating
    /\ DashboardView
    /\ Len(cards) = 2
    /\ cards[1].box = 1
    /\ stored = cards

\* C18: an outcome whose localStorage write throws leaves the reviewed card
\* with its new box and nextReview in memory and the stored deck as it was,
\* and the session proceeds as after a write that returned: to the next
\* card, hidden, or to its end after the last card.
C18_FailedWriteStillProceeds ==
    [][ (OutcomeStep /\ ~last'.ok) =>
            /\ cards' = UpdatedCards(cards, last'.card.id,
                                     NewBox(last'.card.box, last'.success),
                                     NextReview(NewBox(last'.card.box, last'.success),
                                                last'.success, now))
            /\ stored' = stored
            /\ IF currentCardIndex + 1 < Len(reviewQueue)
               THEN /\ isReviewing'
                    /\ currentCardIndex' = currentCardIndex + 1
                    /\ ~isFlipped'
               ELSE ~isReviewing' ]_vars

\* a step in which handleGenerate returns after generateFlashCards resolved
ProviderResolvedStep == isGenerating /\ ~isGenerating' /\ last'.success

\* the cards of deck cs from position n on are new: box 0, created and due
\* at t
NewFrom(cs, n, t) ==
    \A i \in n..Len(cs) :
       /\ cs[i].box = 0
       /\ cs[i].nextReview = t
       /\ cs[i].createdAt = t

\* C19: a deck seeded at the mount is stored at once with every card in box
\* 0 and due at its creation time; and the step that ends a generation whose
\* provider resolved appends the new cards, in box 0 and due at their
\* creation time, behind the unchanged cards of the deck and leaves the
\* stored deck equal to the deck.
C19_CreatedCardsStoredAndDue ==
    /\ (\A i \in 1..Len(cards) : cards[i].createdAt = now) =>
            (stored = cards /\ NewFrom(cards, 1, now))
    /\ [][ ProviderResolvedStep =>
              /\ Len(cards') >= Len(cards)
              /\ SubSeq(cards', 1, Len(cards)) = cards
              /\ NewFrom(cards', Len(cards) + 1, now)
              /\ stored' = cards' ]_vars

\* the questions answered with an option other than the correct one
Incorrect(qs, a) == { i \in DOMAIN a : a[i] # qs[i + 1].correctIndex }

\* exactly one answer of a is incorrect, and it is the last question answered
OnlyLastWrong(qs, a) ==
    \E w \in DOMAIN a :
       /\ Incorrect(qs, a) = {w}
       /\ \A i \in DOMAIN a : i <= w

\* C20: in Streak mode, from the wrong answer on, the runner is locked
\* (isSubmitting) on the question answered wrongly with the answers as they
\* were at that moment, whatever is selected or clicked afterwards, and the
\* completion is on its way; the answers of every completion a wrong answer
\* started, and the answers App holds after it, have that wrong answer as
\* their only incorrect one and as the last question answered.
C20_StreakEndsAtFirstWrong ==
    /\ (RunnerMounted /\ selectedMode = "STREAK" /\ Incorrect(questions, answers) # {}) =>
          /\ isSubmitting
          /\ Incorrect(questions, answers) = {currentQuestionIndex}
          /\ \A i \in DOMAIN answers : i <= currentQuestionIndex
          /\ \E p \in pending :
                p.kind = "streak" /\ p.run = runs /\ p.answers = answers
    /\ \A p \in pending : p.kind = "streak" => OnlyLastWrong(questions, p.answers)
    /\ (/\ quizState = "COMPLETED"
        /\ completed # <<>>
        /\ completed[Len(completed)].kind = "streak") =>
          OnlyLastWrong(questions, userAnswers)

\* a Streak quiz completed by a wrong answer to its second question
C20_Witness ==
    /\ currentView = "QUIZ"
    /\ quizState = "COMPLETED"
    /\ selectedMode = "STREAK"
    /\ completed = <<[kind |-> "streak", run |-> 1]>>
    /\ Len(questions) = 2
    /\ DOMAIN userAnswers = {0, 1}
    /\ userAnswers[0] = questions[1].correctIndex
    /\ userAnswers[1] # questions[2].correctIndex

-----------------------------------------------------------------------------
(* ResultsView: the stats it computes from the props App passes to it *)

\* the results view is rendered: currentView === 'QUIZ' and COMPLETED
ResultsShown == currentView = "QUIZ" /\ quizState = "COMPLETED"

\* Object.keys(userAnswers).length
questionsAnsweredCount == Cardinality(DOMAIN userAnswers)

\* questions.slice(0, questionsAnsweredCount) in Streak mode, else questions
effectiveQuestions ==
    IF selectedMode = "STREAK"
    THEN SubSeq(questions, 1, IF questionsAnsweredCount < Len(questions)
                              THEN questionsAnsweredCount ELSE Len(questions))
    ELSE questions

\* const ans = userAnswers[q.id - 1]; ans === undefined
Unanswered(q) == (q.id - 1) \notin DOMAIN userAnswers

\* ans === q.correctIndex
AnsweredCorrectly(q) == ~Unanswered(q) /\ userAnswers[q.id - 1] = q.correctIndex

\* the three branches of the forEach over effectiveQuestions
correctCount ==
    Len(SelectSeq(effectiveQuestions, AnsweredCorrectly))

skippedQuestions ==
    SelectSeq(effectiveQuestions, LAMBDA q : ~AnsweredCorrectly(q) /\ Unanswered(q))

incorrectQuestions ==
    SelectSeq(effectiveQuestions, LAMBDA q : ~AnsweredCorrectly(q) /\ ~Unanswered(q))

\* C21: in the results of a Timed or Untimed quiz every question without an
\* answer is among the questions marked incorrect.
C21_UnansweredMarkedIncorrect ==
    (ResultsShown /\ isExamMode) =>
        \A i \in 1..Len(questions) :
           Unanswered(questions[i]) => Has(incorrectQuestions, questions[i])

\* C22: a run in which Quit was confirmed never completes: no onComplete call
\* is made for it, and from the Quit until the next quiz is started the
\* application stays at HOME with quiz state IDLE.
C22_QuitRunNeverCompletes ==
    /\ \A k \in 1..Len(completed) : completed[k].run \notin quitRuns
    /\ (runs \in quitRuns /\ currentView = "HOME") => quizState = "IDLE"

\* constants.ts
PASS_MARK_PERCENTAGE == 75
TOTAL_QUESTIONS == 25

\* Math.ceil((PASS_MARK_PERCENTAGE / 100) * TOTAL_QUESTIONS): 0.75 * 25 is
\* exactly 18.75 in floating point, so the ceiling is that of the fraction
PASS_MARK_COUNT == (PASS_MARK_PERCENTAGE * TOTAL_QUESTIONS + 99) \div 100

\* Math.round((correctCount / effectiveQuestions.length) * 100) || 0: the
\* nearest integer, halves upwards, and 0 for the NaN of 0 / 0
scorePercentage ==
    IF Len(effectiveQuestions) = 0 THEN 0
    ELSE (200 * correctCount + Len(effectiveQuestions)) \div (2 * Len(effectiveQuestions))

\* a result that is passed only above the pass mark count
hasPassedAbove ==
    IF selectedMode = "STREAK" THEN correctCount > 10 ELSE correctCount > PASS_MARK_COUNT

\* mode === QuizMode.STREAK ? correctCount > 10 : correctCount >= PASS_MARK_COUNT
hasPassed ==
    IF selectedMode = "STREAK" THEN correctCount > 10 ELSE correctCount >= PASS_MARK_COUNT

-----------------------------------------------------------------------------
(* The results of whole quizzes: a run from the mode button to onComplete  *)
(* taken as one step, with the number of questions startQuiz asks for      *)

\* const count = mode === QuizMode.STREAK ? 40 : 25
QuestionCount(mode) == IF mode = "STREAK" THEN 40 ELSE TOTAL_QUESTIONS

\* the answers of a run over n questions with the first c answered
\* correctly, the next w wrongly and the rest left unanswered
AnswersOf(qs, c, w) ==
    [k \in 0..(c + w - 1) |->
        IF k < c THEN qs[k + 1].correctIndex ELSE 1 - qs[k + 1].correctIndex]

\* the numbers of right and wrong answers a run of the mode can end with: an
\* exam lets questions be skipped, Practice and Streak finish on the last
\* question with every question answered, Streak also at its first wrong answer
Outcomes(mode) ==
    LET n == QuestionCount(mode)
    IN  { cw \in (0..n) \X (0..n) :
            /\ cw[1] + cw[2] <= n
            /\ mode = "PRACTICE" => cw[1] + cw[2] = n
            /\ mode = "STREAK" => \/ cw[2] = 1
                                  \/ cw[2] = 0 /\ cw[1] = n }

\* startQuiz(mode), generateQuizQuestions resolving with count questions, the
\* answers given in the QuizRunner and its onComplete: App.handleQuizComplete
quizRun(mode, c, w) ==
    LET qs == [i \in 1..QuestionCount(mode) |-> Question(i, i % 2)]
    IN  /\ currentView = "HOME"
        /\ ~loading
        /\ runs < MaxRuns
        /\ <<c, w>> \in Outcomes(mode)
        /\ selectedMode' = mode
        /\ currentView' = "QUIZ"
        /\ questions' = qs
        /\ handleQuizComplete(AnswersOf(qs, c, w), 0, <<>>)
        /\ runs' = runs + 1
        /\ completed' = Append(completed, [kind |-> "submit", run |-> runs + 1])
        /\ UNCHANGED <<loading, runnerVars, pending, quitRuns, timerSteps>>
        /\ UNCHANGED flashVars

ResultsNext ==
    \/ \E mode \in Modes : \E c, w \in 0..QuestionCount(mode) : quizRun(mode, c, w)
    \/ handleBackToHome

ResultsSpec == QuizInit /\ [][ResultsNext]_vars

\* the number of questions answered with their correct option
CorrectAnswers ==
    Cardinality({ i \in 1..Len(questions) :
                    /\ (i - 1) \in DOMAIN userAnswers
                    /\ userAnswers[i - 1] = questions[i].correctIndex })

\* C23: the pass mark count is 19, and in the results of a Timed, Untimed or
\* Practice quiz the result is passed exactly when at least 19 questions have
\* their correct answer; with 25 questions that is exactly when the share of
\* correct answers is at least 75%.
C23_PassedFromNineteen ==
    /\ PASS_MARK_COUNT = 19
    /\ (ResultsShown /\ selectedMode # "STREAK") =>
          /\ hasPassed <=> CorrectAnswers >= 19
          /\ Len(questions) = 25 =>
                (hasPassed <=> 100 * CorrectAnswers >= 75 * Len(questions))

\* an Untimed quiz of 25 questions passed with exactly 19 correct answers,
\* 4 wrong ones and 2 questions skipped
C23_Witness ==
    /\ ResultsShown
    /\ selectedMode = "UNTIMED"
    /\ Len(questions) = 25
    /\ correctCount = 19
    /\ Len(incorrectQuestions) = 4
    /\ Len(skippedQuestions) = 2
    /\ scorePercentage = 76
    /\ hasPassed

\* C24: while a Practice or Streak quiz is running no step changes or removes
\* an answer already recorded: every question keeps the option selected for
\* it first, through later selections, Next and every other action.
C24_AnswerKeptInPracticeAndStreak ==
    [][ (RunnerMounted /\ isPracticeOrStreak /\ RunnerMounted') =>
            \A i \in DOMAIN answers :
               /\ i \in DOMAIN answers'
               /\ answers'[i] = answers[i] ]_vars

\* a Practice quiz on its second question, both questions answered, the
\* first one wrongly
C24_Witness ==
    /\ RunnerMounted
    /\ selectedMode = "PRACTICE"
    /\ currentQuestionIndex = 1
    /\ DOMAIN answers = {0, 1}
    /\ answers[0] # questions[1].correctIndex
    /\ answers[1] = questions[2].correctIndex

\* the step makes an onComplete call of this kind
Completes(kind) ==
    /\ Len(completed') = Len(completed) + 1
    /\ completed'[Len(completed')].kind = kind

\* C25: the step in which the countdown reaches 0 is taken in Timed mode and
\* completes the quiz with the answers and bookmarks of that moment and
\* timeTaken 2700; a timer started by Finish or by a wrong Streak answer
\* carries 2700 - secondsLeft in Timed mode and 0 in the other modes, and
\* that is the timeTaken its completion stores; outside Timed mode the
\* countdown of a running quiz stays at 2700.
C25_TimeTrackedInTimedModeOnly ==
    [][ /\ Completes("timeup") =>
              /\ selectedMode = "TIMED"
              /\ quizState' = "COMPLETED"
              /\ userAnswers' = answers
              /\ appBookmarks' = bookmarks
              /\ timeTaken' = 2700
        /\ \A p \in pending' \ pending :
              (p \notin { [q EXCEPT !.ticked = TRUE] : q \in pending }) =>
                 p.timeTaken = (IF selectedMode = "TIMED" THEN 2700 - secondsLeft ELSE 0)
        /\ (Completes("submit") \/ Completes("streak")) =>
              \E p \in pending : pending' = pending \ {p} /\ timeTaken' = p.timeTaken
        /\ (RunnerMounted' /\ selectedMode' # "TIMED") => secondsLeft' = 2700 ]_vars

\* a Timed quiz of two questions ended by the countdown with one answer given
C25_Witness ==
    /\ ResultsShown
    /\ selectedMode = "TIMED"
    /\ completed = <<[kind |-> "timeup", run |-> 1]>>
    /\ timeTaken = 2700
    /\ DOMAIN userAnswers = {0}
    /\ Len(questions) = 2

\* the onComplete calls made for run r
CompletionsOf(r) == { k \in 1..Len(completed) : completed[k].run = r }

\* C26: for every run of the quiz at most one onComplete call is made.
C26_CompletedAtMostOnce ==
    \A r \in 1..runs : Cardinality(CompletionsOf(r)) <= 1

\* C27: after an outcome every card with the id of the reviewed card has its
\* nextReview at least 86400 seconds after the time of the outcome and is not
\* due, the number of due cards is one less than before the outcome, and
\* when the outcome ended the session the queue a session started now would
\* get holds no card of the session.
C27_ReviewedCardNotDue ==
    last.op = "review" =>
        /\ \A i \in Reviewed :
              /\ cards[i].nextReview >= now + 86400
              /\ ~IsDue(cards[i], now)
        /\ stats(cards, now).dueCards = stats(before.cards, now).dueCards - 1
        /\ ~isReviewing =>
              \A k \in 1..Len(DueQueue(cards, now)) :
                 DueQueue(cards, now)[k].id \notin QueueIds

\* C28: an outcome leaves every card whose id is not that of the current
\* queue card as it was, in the deck and in number, and since the session
\* started no id was given an outcome twice.
C28_OutcomeChangesCurrentCardOnly ==
    /\ last.op = "review" =>
          /\ Len(cards) = Len(before.cards)
          /\ \A i \in 1..Len(cards) :
                cards[i].id # last.card.id => cards[i] = before.cards[i]
    /\ Cardinality(UpsertIds) = Len(upserts)

====
